---- MODULE Spec2Model ----
(***************************************************************************)
(* Model of the Azure architecture diagram generator                       *)
(* (src/azure_diagram_server.py): the text-to-graph extractor              *)
(* (AzureDiagramGenerator.process_text_with_nlp and its strategies), the  *)
(* graph-to-diagram renderer (generate_diagram_from_json), the tool that   *)
(* composes them, and the /mcp endpoint of src/docker_mcp_server.py.       *)
(*                                                                         *)
(* Encoding of Python values:                                              *)
(*  - a str is a sequence of one-character strings;                        *)
(*  - a dict is a record (a function from key strings), a missing key is   *)
(*    a string outside its DOMAIN;                                         *)
(*  - a list is a sequence;                                                *)
(*  - a parsed JSON value that is not an object is the record              *)
(*    [json_array |-> items];                                              *)
(*  - a call that raises yields a record with raised = TRUE.               *)
(***************************************************************************)
EXTENDS Integers, Sequences, FiniteSets, TLC

(***************************************************************************)
(* Bounds                                                                  *)
(***************************************************************************)
\* a description is the concatenation of at most MaxFrags distinct fragments
MaxFrags == 2

(***************************************************************************)
(* State                                                                   *)
(***************************************************************************)
VARIABLES
    AZURE_OPENAI_ENDPOINT,  \* module global, line 133: "<None>", "" or a URL
    AZURE_OPENAI_API_KEY,   \* module global, line 134: "<None>", "" or a key
    OPENAI_AVAILABLE,       \* module global, lines 139-146
    pc,                     \* "idle", "returned" after process_text_with_nlp,
                            \* "rendered" after generate_diagram_from_json,
                            \* "generated" after the tool, "answered" after
                            \* mcp_endpoint
    call,                   \* the process_text_with_nlp call that just ended
    first,                  \* the first call made without remote
                            \* configuration since the process started,
                            \* whose graph the caller keeps; call.later
                            \* tells that call came after it
    heap,                   \* the list objects of the fallback graphs that
                            \* are alive: the sequence of their contents,
                            \* a list's address being its index
    DIAGRAMS_AVAILABLE,     \* module global, lines 50-105
    MachineLearningServices, \* module global, lines 60-63 and 86: the name
                            \* of the class the import bound to it
    files,                  \* the temporary directory: path -> bytes
    tool,                   \* the generate_azure_diagram_from_text call that
                            \* just ended
    inflight,               \* the generate_diagram_from_json calls of server
                            \* processes that share the temporary directory
    render,                 \* the generate_diagram_from_json call that just
                            \* ended
    mcp                     \* the request of the /mcp endpoint that was just
                            \* answered (src/docker_mcp_server.py)

vars == <<AZURE_OPENAI_ENDPOINT, AZURE_OPENAI_API_KEY, OPENAI_AVAILABLE,
          pc, call, first, heap, DIAGRAMS_AVAILABLE, MachineLearningServices, files,
          render, tool, inflight, mcp>>

\* the module globals, set at import
globals == <<AZURE_OPENAI_ENDPOINT, AZURE_OPENAI_API_KEY, OPENAI_AVAILABLE,
             DIAGRAMS_AVAILABLE, MachineLearningServices>>

\* os.getenv yields None for an unset variable
None == "<None>"

\* Python truthiness of an optional string: `not x`
Not(x) == x = None \/ x = ""

\* lines 176 and 183: the remote configuration is incomplete
ConfigMissing == Not(AZURE_OPENAI_ENDPOINT) \/ Not(AZURE_OPENAI_API_KEY)

(***************************************************************************)
(* Strings                                                                 *)
(***************************************************************************)
UpperChars ==
    <<"A","B","C","D","E","F","G","H","I","J","K","L","M",
      "N","O","P","Q","R","S","T","U","V","W","X","Y","Z">>

LowerChars ==
    <<"a","b","c","d","e","f","g","h","i","j","k","l","m",
      "n","o","p","q","r","s","t","u","v","w","x","y","z">>

\* the lower-case letter of each upper-case ASCII letter
LowerTable ==
    [c \in {UpperChars[i] : i \in 1..26} |->
        LowerChars[CHOOSE i \in 1..26 : UpperChars[i] = c]]

\* str.lower() on one ASCII character
LowerChar(c) == IF c \in DOMAIN LowerTable THEN LowerTable[c] ELSE c

\* str.lower()
Lower(s) == [i \in 1..Len(s) |-> LowerChar(s[i])]

\* the Python test `kw in s` on strings: kw occurs as a contiguous substring
Contains(s, kw) ==
    \E i \in 1..(Len(s) - Len(kw) + 1) : SubSeq(s, i, i + Len(kw) - 1) = kw

\* the keywords of _mock_nlp_processing
KwWebApp   == <<"w","e","b"," ","a","p","p">>
KwWebapp   == <<"w","e","b","a","p","p">>
KwDatabase == <<"d","a","t","a","b","a","s","e">>
KwSql      == <<"s","q","l">>
KwStorage  == <<"s","t","o","r","a","g","e">>
KwFunction == <<"f","u","n","c","t","i","o","n">>

(***************************************************************************)
(* The fallback strategy: _mock_nlp_processing                             *)
(***************************************************************************)
WebAppResource ==
    [name |-> "Web Application", type |-> "Azure.WebApp",
     attributes |-> [location |-> "East US", sku |-> "S1"]]

SqlResource ==
    [name |-> "SQL Database", type |-> "Azure.SQLDatabase",
     attributes |-> [location |-> "East US", sku |-> "S2"]]

StorageResource ==
    [name |-> "Storage Account", type |-> "Azure.StorageAccount",
     attributes |-> [location |-> "East US", sku |-> "Standard_LRS"]]

FunctionResource ==
    [name |-> "Function App", type |-> "Azure.FunctionApp",
     attributes |-> [location |-> "East US", sku |-> "Consumption"]]

\* the keyword tests done on the description as written, without lower()
MockResourcesCaseSensitive(description) ==
    LET r0 == <<>>
        r1 == IF Contains(description, KwWebApp)
                 \/ Contains(description, KwWebapp)
              THEN Append(r0, WebAppResource) ELSE r0
        r2 == IF Contains(description, KwDatabase)
                 \/ Contains(description, KwSql)
              THEN Append(r1, SqlResource) ELSE r1
        r3 == IF Contains(description, KwStorage)
              THEN Append(r2, StorageResource) ELSE r2
        r4 == IF Contains(description, KwFunction)
              THEN Append(r3, FunctionResource) ELSE r3
    IN  r4

\* lines 349-375: what the four keyword tests append to resources
MockResources(description) ==
    LET r0 == <<>>
        r1 == IF Contains(Lower(description), KwWebApp)
                 \/ Contains(Lower(description), KwWebapp)
              THEN Append(r0, WebAppResource) ELSE r0
        r2 == IF Contains(Lower(description), KwDatabase)
                 \/ Contains(Lower(description), KwSql)
              THEN Append(r1, SqlResource) ELSE r1
        r3 == IF Contains(Lower(description), KwStorage)
              THEN Append(r2, StorageResource) ELSE r2
        r4 == IF Contains(Lower(description), KwFunction)
              THEN Append(r3, FunctionResource) ELSE r3
    IN  r4

\* the chain started only from three resources on (len(resources) > 2)
MockRelationshipsOffByOne(resources) ==
    IF Len(resources) > 2
    THEN [i \in 1..(Len(resources) - 1) |->
            [source |-> resources[i].name,
             target |-> resources[i + 1].name,
             type   |-> "connects_to"]]
    ELSE <<>>

\* lines 377-384: the chain of relationships over consecutive resources
MockRelationships(resources) ==
    IF Len(resources) > 1
    THEN [i \in 1..(Len(resources) - 1) |->
            [source |-> resources[i].name,
             target |-> resources[i + 1].name,
             type   |-> "connects_to"]]
    ELSE <<>>

\* the default cluster emitted without the `if resources` test
MockClustersAlways(resources) ==
    << [name |-> "Resource Group",
        resources |-> [i \in 1..Len(resources) |-> resources[i].name]] >>

\* lines 386-391: the default cluster
MockClusters(resources) ==
    IF resources # <<>>
    THEN << [name |-> "Resource Group",
             resources |-> [i \in 1..Len(resources) |-> resources[i].name]] >>
    ELSE <<>>

\* the three lists created once and used by every call, as lists held by
\* the generator or by default arguments would be
MockListsShared(live) ==
    [resources |-> 1, relationships |-> 2, clusters |-> 3]

\* lines 344-346: resources, relationships and clusters are bound to three
\* new list objects, at the addresses that follow those of the live lists
MockLists(live) ==
    [resources     |-> Len(live) + 1,
     relationships |-> Len(live) + 2,
     clusters      |-> Len(live) + 3]

\* _mock_nlp_processing(description), lines 339-398: the lists of lines
\* 344-346 (a list just created is empty), what lines 349-391 append to
\* them, and the dict of lines 393-398 that holds them
_mock_nlp_processing(description) ==
    LET lists == MockLists(heap)
        at(a) == IF a <= Len(heap) THEN heap[a] ELSE <<>>
        resources == at(lists.resources) \o MockResources(description)
    IN  [diagram_label |-> "Mock Architecture Diagram",
         resources     |-> resources,
         relationships |->
             at(lists.relationships) \o MockRelationships(resources),
         clusters      |-> at(lists.clusters) \o MockClusters(resources)]

(***************************************************************************)
(* Remote responses                                                        *)
(*                                                                         *)
(* The text of a chat completion is a sequence of tokens:                  *)
(*   [t |-> "ws"]          whitespace                                      *)
(*   [t |-> "fence_json"]  the seven characters ```json                    *)
(*   [t |-> "fence"]       the three characters ```                        *)
(*   [t |-> "text"]        prose that is not JSON                          *)
(*   [t |-> "doc", v |-> x] the JSON text of the value x                   *)
(***************************************************************************)
Ws        == [t |-> "ws"]
FenceJson == [t |-> "fence_json"]
Fence     == [t |-> "fence"]
Text      == [t |-> "text"]
Doc(x)    == [t |-> "doc", v |-> x]

RECURSIVE LStrip(_)
LStrip(c) == IF c # <<>> /\ Head(c).t = "ws" THEN LStrip(Tail(c)) ELSE c

RECURSIVE RStrip(_)
RStrip(c) ==
    IF c # <<>> /\ c[Len(c)].t = "ws" THEN RStrip(SubSeq(c, 1, Len(c) - 1)) ELSE c

\* str.strip()
Strip(c) == RStrip(LStrip(c))

\* lines 233-236 and 285-288 without the endswith test of lines 235-236
\* and 287-288: only the leading fence tag is removed
CleanFencesLeadingOnly(content) ==
    IF content # <<>> /\ Head(content).t = "fence_json"
    THEN Tail(content) ELSE content

\* lines 233-236 and 285-288: the code-fence cleaning
CleanFences(content) ==
    LET c1 == IF content # <<>> /\ Head(content).t = "fence_json"
              THEN Tail(content) ELSE content
        c2 == IF c1 # <<>> /\ c1[Len(c1)].t = "fence"
              THEN SubSeq(c1, 1, Len(c1) - 1) ELSE c1
    IN  c2

\* json.loads: exactly one JSON document, whitespace around it allowed
json_loads(content) ==
    LET c == Strip(content)
    IN  IF Len(c) = 1 /\ c[1].t = "doc"
        THEN [raised |-> FALSE, value |-> c[1].v]
        ELSE [raised |-> TRUE]

\* lines 230-240 and 282-292: from the message content to the parsed value
ParseContent(content) == json_loads(CleanFences(Strip(content)))

\* _process_with_openai_client, lines 205-240; sdk is what the SDK call does
_process_with_openai_client(sdk) ==
    IF sdk.kind = "raise" THEN [raised |-> TRUE]
    ELSE IF sdk.kind = "no_content" THEN [raised |-> TRUE]
    ELSE ParseContent(sdk.content)

\* Response.raise_for_status of the requests library
RaiseForStatus(status) == 400 <= status /\ status < 600

\* _process_with_requests, lines 242-292; http is what requests.post does
_process_with_requests(http) ==
    IF http.kind \in {"exception", "timeout"} THEN [raised |-> TRUE]
    ELSE IF http.status = 400 THEN [raised |-> TRUE]
    ELSE IF http.status = 401 THEN [raised |-> TRUE]
    ELSE IF http.status = 404 THEN [raised |-> TRUE]
    ELSE IF RaiseForStatus(http.status) THEN [raised |-> TRUE]
    ELSE IF http.body.kind = "not_json" THEN [raised |-> TRUE]
    ELSE IF http.body.kind = "no_choices" THEN [raised |-> TRUE]
    ELSE ParseContent(http.body.content)

(***************************************************************************)
(* The strategy chain: process_text_with_nlp                               *)
(***************************************************************************)
\* process_text_with_nlp without the try/except of lines 198-203: an
\* exception of the requests strategy reaches the caller
ProcessTextWithNlpPropagating(architecture_description, sdk, http) ==
    IF ConfigMissing
    THEN [raised |-> FALSE, attempts |-> <<"mock">>,
          value |-> _mock_nlp_processing(architecture_description)]
    ELSE
      LET viaClient == OPENAI_AVAILABLE
                       /\ ~ _process_with_openai_client(sdk).raised
          before == IF OPENAI_AVAILABLE THEN <<"client">> ELSE <<>>
      IN  IF viaClient
          THEN [raised |-> FALSE, attempts |-> <<"client">>,
                value |-> _process_with_openai_client(sdk).value]
          ELSE IF ~ _process_with_requests(http).raised
          THEN [raised |-> FALSE, attempts |-> before \o <<"requests">>,
                value |-> _process_with_requests(http).value]
          ELSE [raised |-> TRUE, attempts |-> before \o <<"requests">>]

\* lines 179-203 with the SDK client attempted a second time after it
\* raised, before the requests method
ProcessTextWithNlpRetry(architecture_description, sdk, http) ==
    IF ConfigMissing
    THEN [raised |-> FALSE, attempts |-> <<"mock">>,
          value |-> _mock_nlp_processing(architecture_description)]
    ELSE
      LET viaClient == OPENAI_AVAILABLE
                       /\ ~ _process_with_openai_client(sdk).raised
          before == IF OPENAI_AVAILABLE THEN <<"client", "client">> ELSE <<>>
      IN  IF viaClient
          THEN [raised |-> FALSE, attempts |-> <<"client">>,
                value |-> _process_with_openai_client(sdk).value]
          ELSE IF ~ _process_with_requests(http).raised
          THEN [raised |-> FALSE, attempts |-> before \o <<"requests">>,
                value |-> _process_with_requests(http).value]
          ELSE [raised |-> FALSE,
                attempts |-> before \o <<"requests", "mock">>,
                value |-> _mock_nlp_processing(architecture_description)]

\* process_text_with_nlp, lines 179-203.  value is what the coroutine
\* returns; attempts lists the strategies it ran, in order.
process_text_with_nlp(architecture_description, sdk, http) ==
    IF ConfigMissing
    THEN [raised |-> FALSE, attempts |-> <<"mock">>,
          value |-> _mock_nlp_processing(architecture_description)]
    ELSE
      LET viaClient == OPENAI_AVAILABLE
                       /\ ~ _process_with_openai_client(sdk).raised
          before == IF OPENAI_AVAILABLE THEN <<"client">> ELSE <<>>
      IN  IF viaClient
          THEN [raised |-> FALSE, attempts |-> <<"client">>,
                value |-> _process_with_openai_client(sdk).value]
          ELSE IF ~ _process_with_requests(http).raised
          THEN [raised |-> FALSE, attempts |-> before \o <<"requests">>,
                value |-> _process_with_requests(http).value]
          ELSE [raised |-> FALSE,
                attempts |-> before \o <<"requests", "mock">>,
                value |-> _mock_nlp_processing(architecture_description)]

(***************************************************************************)
(* Inputs                                                                  *)
(***************************************************************************)
\* the pieces descriptions are made of
Fragments ==
    << <<"W","e","b">>,
       <<" ","A","p","p"," ","D","a","t","a","b","a","s","e">>,
       <<"W","E","B","A","P","P"," ","s","q","l">>,
       <<"f","u","n","c","t","i","o","n"," ","s","t","o","r","a","g","e">>,
       <<"h","e","l","l","o"," ","w","o","r","l","d">>,
       <<"w","e","b"," ","a","p","p"," ","w","i","t","h"," ",
         "s","q","l"," ","d","a","t","a","b","a","s","e">> >>

RECURSIVE Concat(_)
Concat(fs) == IF fs = <<>> THEN <<>> ELSE Fragments[Head(fs)] \o Concat(Tail(fs))

\* the descriptions: concatenations of at most MaxFrags distinct fragments
Descriptions ==
    { Concat(fs) :
        fs \in { g \in UNION { [1..n -> 1..Len(Fragments)] : n \in 0..MaxFrags } :
                   \A i, j \in 1..Len(g) : i # j => g[i] # g[j] } }

\* what a remote model may answer: a well-formed graph
GraphOne ==
    [diagram_label |-> "Remote",
     resources |-> << [name |-> "API", type |-> "Azure.WebApp",
                       attributes |-> [location |-> "West US", sku |-> "P1"]] >>,
     relationships |-> <<>>,
     clusters |-> <<>>]

\* a graph that names two resources alike
GraphDup ==
    [diagram_label |-> "Remote",
     resources |-> << [name |-> "API", type |-> "Azure.WebApp",
                       attributes |-> [location |-> "West US", sku |-> "P1"]],
                      [name |-> "API", type |-> "Azure.FunctionApp",
                       attributes |-> [location |-> "West US", sku |-> "Y1"]] >>,
     relationships |-> << [source |-> "API", target |-> "API",
                           type |-> "connects_to"] >>,
     clusters |-> <<>>]

\* a JSON object without resources, relationships and clusters
LabelOnly == [diagram_label |-> "Remote"]

\* a JSON value that is not an object: []
EmptyArray == [json_array |-> <<>>]

RemoteDocs == {GraphOne, GraphDup, LabelOnly, EmptyArray}

\* message contents that hold the JSON text of x, bare or fenced
Wrappings(x) ==
    { <<Doc(x)>>,
      <<Ws, Doc(x), Ws>>,
      <<FenceJson, Ws, Doc(x), Ws, Fence>>,
      <<FenceJson, Doc(x)>>,
      <<Doc(x), Fence>> }

ValidContents == UNION { Wrappings(x) : x \in RemoteDocs }

\* message contents that are not JSON once the fences are cleaned
InvalidContents ==
    { <<>>,
      <<Text>>,
      <<Text, Ws, Doc(GraphOne)>>,
      <<Fence, Ws, Doc(GraphOne), Ws, Fence>>,
      <<FenceJson, Fence>> }

Contents == ValidContents \cup InvalidContents

\* a remote strategy that was not consulted
Unused == [kind |-> "unused"]

\* what the SDK call of _process_with_openai_client may do
SdkBehaviours ==
    { [kind |-> "raise"], [kind |-> "no_content"] }
    \cup { [kind |-> "content", content |-> c] : c \in Contents }

Bodies ==
    { [kind |-> "not_json"], [kind |-> "no_choices"] }
    \cup { [kind |-> "content", content |-> c] : c \in Contents }

Statuses == {200, 304, 400, 401, 404, 429, 500}

\* what requests.post of _process_with_requests may do
HttpBehaviours ==
    { [kind |-> "exception"], [kind |-> "timeout"] }
    \cup { [kind |-> "response", status |-> 200, body |-> b] : b \in Bodies }
    \cup { [kind |-> "response", status |-> st, body |-> b] :
             st \in Statuses \ {200},
             b \in { [kind |-> "no_choices"],
                     [kind |-> "content", content |-> <<Doc(GraphOne)>>] } }

(***************************************************************************)
(* The extractor as a state machine                                        *)
(***************************************************************************)
NoCall == [made |-> FALSE]

Init ==
    /\ AZURE_OPENAI_ENDPOINT \in {None, "https://example.openai.azure.com/"}
    /\ AZURE_OPENAI_API_KEY \in {"", "key"}
    /\ OPENAI_AVAILABLE \in BOOLEAN
    /\ DIAGRAMS_AVAILABLE = TRUE
    /\ MachineLearningServices = "MachineLearningServiceWorkspaces"
    /\ pc = "idle"
    /\ call = NoCall
    /\ first = NoCall
    /\ heap = <<>>
    /\ files = <<>>
    /\ render = NoCall
    /\ tool = NoCall
    /\ mcp = NoCall
    /\ inflight = <<>>

\* process_text_with_nlp returns result to its caller; the lists of a
\* fallback graph stay alive while the caller holds the graph
Returns(d, sdk, http, result) ==
    LET viaMock == /\ ~result.raised
                   /\ result.attempts[Len(result.attempts)] = "mock"
        lists == IF viaMock THEN MockLists(heap)
                 ELSE [resources |-> 0, relationships |-> 0, clusters |-> 0]
    IN  /\ call' = [made |-> TRUE, later |-> first.made, description |-> d,
                    sdk |-> sdk, http |-> http, result |-> result,
                    lists |-> lists]
        /\ first' = IF ConfigMissing /\ ~first.made THEN call' ELSE first
        /\ heap' = IF viaMock
                   THEN [a \in 1..(IF lists.clusters > Len(heap)
                                   THEN lists.clusters ELSE Len(heap)) |->
                           IF a = lists.resources
                           THEN result.value.resources
                           ELSE IF a = lists.relationships
                           THEN result.value.relationships
                           ELSE IF a = lists.clusters
                           THEN result.value.clusters
                           ELSE heap[a]]
                   ELSE heap
        /\ pc' = "returned"
        /\ UNCHANGED <<globals, files, render, tool, inflight, mcp>>

\* one call of process_text_with_nlp that consulted sdk and http
Extract(d, sdk, http) ==
    Returns(d, sdk, http, process_text_with_nlp(d, sdk, http))

\* a caller awaits process_text_with_nlp; the remote strategies are
\* consulted in the order of lines 189-203
ProcessTextWithNlp ==
    /\ pc = "idle"
    /\ \E d \in Descriptions :
         IF ConfigMissing
         THEN Extract(d, Unused, Unused)
         ELSE IF OPENAI_AVAILABLE
         THEN \E sdk \in SdkBehaviours :
                IF ~ _process_with_openai_client(sdk).raised
                THEN Extract(d, sdk, Unused)
                ELSE \E http \in HttpBehaviours : Extract(d, sdk, http)
         ELSE \E http \in HttpBehaviours : Extract(d, Unused, http)

\* the caller is done with the returned graph, whose lists die unless
\* they are lists of the graph that is kept (the oldest of the live
\* lists), and may call again
NextRequest ==
    /\ pc \in {"returned", "rendered", "generated", "answered"}
    /\ pc' = "idle"
    /\ heap' = IF first.made THEN SubSeq(heap, 1, first.lists.clusters)
               ELSE <<>>
    /\ call' = NoCall
    /\ render' = NoCall
    /\ tool' = NoCall
    /\ mcp' = NoCall
    /\ UNCHANGED <<globals, first, files, inflight>>

Next == ProcessTextWithNlp \/ NextRequest

Spec == Init /\ [][Next]_vars

(***************************************************************************)
(* Properties of the extractor                                             *)
(***************************************************************************)
Returned == pc = "returned"

\* the graph the call returned
Graph == call.result.value

\* C1: process_text_with_nlp never raises to its caller: whatever the
\* description, the remote configuration, the availability of the SDK and
\* the outcome of each remote attempt, the call ends by returning a value.
C1_NeverRaises ==
    Returned => /\ call.result.raised = FALSE
                /\ "value" \in DOMAIN call.result

\* C1 witness: with configuration and SDK present, the SDK call raised, the
\* HTTP call timed out, and the call still returned a value.
C1_Witness ==
    /\ Returned /\ ~ConfigMissing /\ OPENAI_AVAILABLE
    /\ call.sdk.kind = "raise"
    /\ call.http.kind = "timeout"
    /\ ~call.result.raised

\* a dict with the three sequences of a ResourceGraph
IsResourceGraph(v) == {"resources", "relationships", "clusters"} \subseteq DOMAIN v

\* C2: on every path the returned value is a ResourceGraph whose resources,
\* relationships and clusters are present; a remote answer that lacks one
\* of them, or is not an object, is not returned as it is.
C2_AlwaysResourceGraph == Returned => IsResourceGraph(Graph)

\* the failure classes of an SDK attempt, read off what the SDK did
SdkFailureClass(sdk) ==
    \/ sdk.kind \in {"raise", "no_content"}
    \/ sdk.kind = "content" /\ sdk.content \in InvalidContents

\* the HTTP attempts that raise in _process_with_requests, read off what
\* requests.post did: transport exception, timeout, 400, 401, 404, any
\* other status of 400 to 599 (raise_for_status), and a response that is
\* not in error but whose content is not valid JSON
HttpFailureClass(http) ==
    \/ http.kind \in {"exception", "timeout"}
    \/ /\ http.kind = "response"
       /\ \/ http.status \in {400, 401, 404}
          \/ http.status >= 400
          \/ http.body.kind \in {"not_json", "no_choices"}
          \/ http.body.kind = "content" /\ http.body.content \in InvalidContents

\* C3: with remote configuration present, when every remote attempt fails
\* the call returns exactly the graph the fallback strategy produces for
\* the same description, for each failure class alike: transport
\* exception, timeout, HTTP 400, 401, 404, any other status that is not a
\* success (not 2xx), and a successful response whose content is not valid
\* JSON.
C3_FailuresFallBack ==
    ( /\ Returned /\ ~ConfigMissing
      /\ (OPENAI_AVAILABLE => SdkFailureClass(call.sdk))
      /\ \/ HttpFailureClass(call.http)
         \/ /\ call.http.kind = "response"
            /\ ~(200 <= call.http.status /\ call.http.status < 300) )
    => /\ ~call.result.raised
       /\ Graph = _mock_nlp_processing(call.description)

\* kw occurs in d when letter case is ignored
Occurs(d, kw) ==
    \E i \in 0..(Len(d) - Len(kw)) :
        \A j \in 1..Len(kw) : LowerChar(d[i + j]) = kw[j]

\* the keyword groups of the fallback strategy, in their fixed order
KeywordGroups ==
    << [kws |-> {KwWebApp, KwWebapp},
        name |-> "Web Application", type |-> "Azure.WebApp"],
       [kws |-> {KwDatabase, KwSql},
        name |-> "SQL Database", type |-> "Azure.SQLDatabase"],
       [kws |-> {KwStorage},
        name |-> "Storage Account", type |-> "Azure.StorageAccount"],
       [kws |-> {KwFunction},
        name |-> "Function App", type |-> "Azure.FunctionApp"] >>

\* one entry per group that has a keyword in d, in the fixed order
ExpectedResources(d) ==
    LET Hit(g) == \E kw \in g.kws : Occurs(d, kw)
        sel == SelectSeq(KeywordGroups, Hit)
    IN  [i \in 1..Len(sel) |-> [name |-> sel[i].name, type |-> sel[i].type]]

NameTypes(rs) == [i \in 1..Len(rs) |-> [name |-> rs[i].name, type |-> rs[i].type]]

Names(rs) == [i \in 1..Len(rs) |-> rs[i].name]

\* C4: without remote configuration the resources are exactly one fixed
\* resource per keyword group that matches case-insensitively, one per group
\* even when both keywords occur, always in the order WebApp, SQLDatabase,
\* StorageAccount, FunctionApp.
C4_FallbackResources ==
    (Returned /\ ConfigMissing)
    => NameTypes(Graph.resources) = ExpectedResources(call.description)

\* C4 witness: "function storageWEBAPP sql" names the groups in another
\* order and in upper case, and yields the four resources in the fixed order.
C4_Witness ==
    /\ Returned /\ ConfigMissing
    /\ call.description = Fragments[4] \o Fragments[3]
    /\ Names(Graph.resources) =
         <<"Web Application", "SQL Database", "Storage Account", "Function App">>

\* C5: n >= 2 fallback resources give exactly n-1 relationships, the i-th
\* from resource i to resource i+1 with kind connects_to; fewer than 2 give
\* none.  Every endpoint names a resource of the graph and no resource is
\* the source of two relationships.
C5_FallbackChain ==
    (Returned /\ ConfigMissing)
    => LET rs == Graph.resources
           rel == Graph.relationships
       IN  /\ Len(rs) >= 2 =>
                /\ Len(rel) = Len(rs) - 1
                /\ \A i \in 1..Len(rel) :
                     rel[i] = [source |-> rs[i].name, target |-> rs[i + 1].name,
                               type |-> "connects_to"]
           /\ Len(rs) < 2 => rel = <<>>
           /\ \A i \in 1..Len(rel) :
                /\ \E k \in 1..Len(rs) : rs[k].name = rel[i].source
                /\ \E k \in 1..Len(rs) : rs[k].name = rel[i].target
           /\ \A i, j \in 1..Len(rel) : i # j => rel[i].source # rel[j].source

\* C5 witness: four resources chained by three relationships.
C5_Witness ==
    /\ Returned /\ ConfigMissing
    /\ Len(Graph.resources) = 4
    /\ Len(Graph.relationships) = 3
    /\ Graph.relationships[3].source = "Storage Account"
    /\ Graph.relationships[3].target = "Function App"

HelloWorld == Fragments[5]

\* C6: at least one fallback resource gives exactly one cluster, named
\* Resource Group, holding all resource names in append order; no keyword
\* match ("hello world", the empty string) gives 0 resources, 0
\* relationships and 0 clusters.
C6_FallbackCluster ==
    (Returned /\ ConfigMissing)
    => LET rs == Graph.resources
       IN  /\ rs # <<>> =>
                Graph.clusters =
                  << [name |-> "Resource Group", resources |-> Names(rs)] >>
           /\ rs = <<>> => Graph.relationships = <<>> /\ Graph.clusters = <<>>
           /\ call.description \in {<<>>, HelloWorld} => rs = <<>>

\* C6 witness: the first call, on "hello world", gave an empty graph and a
\* later call gave one cluster with three members.
C6_Witness ==
    /\ Returned /\ ConfigMissing
    /\ first.made /\ call.later /\ first.description = HelloWorld
    /\ first.result.value.resources = <<>>
    /\ first.result.value.clusters = <<>>
    /\ Len(Graph.clusters) = 1
    /\ Len(Graph.clusters[1].resources) = 3

\* C7: fallback determinism.  Without remote configuration a call returns
\* a graph equal to the one the first call with the same description
\* returned, whatever calls were made in between; every call builds its
\* graph on lists of its own, none of them a list of the graph the first
\* call returned, and that graph, still held by its caller, is as it was
\* returned; the label of every fallback graph is the literal
\* "Mock Architecture Diagram".
C7_FallbackDeterminism ==
    (Returned /\ ConfigMissing)
    => /\ Graph.diagram_label = "Mock Architecture Diagram"
       /\ first.made =>
            /\ first.description = call.description
                 => call.result = first.result
            /\ call.later =>
                 {call.lists.resources, call.lists.relationships,
                  call.lists.clusters}
                 \cap {first.lists.resources, first.lists.relationships,
                       first.lists.clusters} = {}
            /\ first.lists.clusters <= Len(heap)
            /\ heap[first.lists.resources] = first.result.value.resources
            /\ heap[first.lists.relationships]
                 = first.result.value.relationships
            /\ heap[first.lists.clusters] = first.result.value.clusters

\* C7 witness: a call after the first one, with the first one's description
\* and a graph of two resources or more, built on three lists of its own
\* while the three lists of the first graph are alive.
C7_Witness ==
    /\ Returned /\ ConfigMissing
    /\ first.made /\ call.later
    /\ first.description = call.description
    /\ Len(Graph.resources) >= 2
    /\ Len(heap) = 6
    /\ first.lists = [resources |-> 1, relationships |-> 2, clusters |-> 3]
    /\ call.lists = [resources |-> 4, relationships |-> 5, clusters |-> 6]
    /\ heap[4] = heap[1] /\ heap[5] = heap[2] /\ heap[6] = heap[3]

\* C8: every returned graph has pairwise distinct resource names, on the
\* fallback path and on both remote transports.
C8_DistinctNames ==
    (Returned /\ "resources" \in DOMAIN Graph)
    => \A i, j \in 1..Len(Graph.resources) :
          i # j => Graph.resources[i].name # Graph.resources[j].name

\* the SDK returned the JSON text of x, bare or in fence markers
SdkAnswered(x) ==
    /\ OPENAI_AVAILABLE
    /\ call.sdk.kind = "content"
    /\ call.sdk.content \in Wrappings(x)

\* the SDK strategy was absent or failed, and the HTTP response, not in
\* error, carried the JSON text of x, bare or in fence markers
HttpAnswered(x) ==
    /\ OPENAI_AVAILABLE => SdkFailureClass(call.sdk)
    /\ call.http.kind = "response"
    /\ ~RaiseForStatus(call.http.status)
    /\ call.http.body.kind = "content"
    /\ call.http.body.content \in Wrappings(x)

\* C21: code-fence stripping.  For both remote transports, a response
\* whose content is the JSON text of a graph, with or without a leading
\* ```json tag and with or without a trailing ``` fence, parses to the same
\* graph as the bare JSON text: the call returns that graph from the
\* transport that received it, and no later strategy is consulted.
C21_FenceStripping ==
    (Returned /\ ~ConfigMissing) =>
      \A x \in { d \in RemoteDocs : IsResourceGraph(d) } :
        /\ SdkAnswered(x) =>
              /\ call.result.attempts = <<"client">>
              /\ Graph = x
              /\ Graph = json_loads(<<Doc(x)>>).value
        /\ HttpAnswered(x) =>
              /\ call.result.attempts[Len(call.result.attempts)] = "requests"
              /\ Graph = x
              /\ Graph = json_loads(<<Doc(x)>>).value

\* C21 witness: the SDK raised, the HTTP response carried a graph between
\* ```json and ```, and the call returned that graph from the requests
\* strategy.
C21_Witness ==
    /\ Returned /\ ~ConfigMissing /\ OPENAI_AVAILABLE
    /\ call.sdk.kind = "raise"
    /\ HttpAnswered(GraphOne)
    /\ call.http.body.content = <<FenceJson, Ws, Doc(GraphOne), Ws, Fence>>
    /\ call.result.attempts = <<"client", "requests">>
    /\ Graph = GraphOne

(***************************************************************************)
(* The renderer: generate_diagram_from_json                                *)
(***************************************************************************)
\* a bound on the temporary names that can exist at once
MaxTmp == 1
\* a bound on the number of resources of a rendered graph
MaxResources == 2
\* a bound on the number of clusters of a rendered graph
MaxClusters == 2
\* a bound on the number of relationships of a rendered graph
MaxRels == 2

\* dict.get(k, default)
Get(d, k, default) == IF k \in DOMAIN d THEN d[k] ELSE default

\* d[k] = v
Put(d, k, v) == (k :> v) @@ d

\* the Python test `x in l` on a list
InList(x, l) == \E i \in 1..Len(l) : l[i] = x

\* lines 60-63 and 86: the classes the import can bind to
\* MachineLearningServices: MachineLearningServiceWorkspaces, or
\* CognitiveServices when the package has no such class (except
\* ImportError, lines 62-63), or MockNode without the package
MlImports(available) ==
    IF available
    THEN {"MachineLearningServiceWorkspaces", "CognitiveServices"}
    ELSE {"MockNode"}

\* AZURE_NODE_MAP, lines 149-166, with the diagrams package imported; the
\* class of Azure.MachineLearning is the one lines 60-63 could import
NodeMapReal ==
    ("Azure.WebApp" :> "AppServices")
    @@ ("Azure.FunctionApp" :> "FunctionApps")
    @@ ("Azure.VirtualMachine" :> "VM")
    @@ ("Azure.SQLDatabase" :> "SQLDatabases")
    @@ ("Azure.CosmosDB" :> "CosmosDb")
    @@ ("Azure.StorageAccount" :> "StorageAccounts")
    @@ ("Azure.BlobStorage" :> "BlobStorage")
    @@ ("Azure.LoadBalancer" :> "LoadBalancers")
    @@ ("Azure.ApplicationGateway" :> "ApplicationGateway")
    @@ ("Azure.VirtualNetwork" :> "VirtualNetworks")
    @@ ("Azure.KeyVault" :> "KeyVaults")
    @@ ("Azure.ServiceBus" :> "AzureServiceBus")
    @@ ("Azure.LogAnalytics" :> "LogAnalyticsWorkspaces")
    @@ ("Azure.MachineLearning" :> MachineLearningServices)
    @@ ("Azure.Generic" :> "GenericCompute")

\* AZURE_NODE_MAP: without the diagrams package every node class but the
\* generic one is MockNode (lines 73-86)
AZURE_NODE_MAP ==
    IF DIAGRAMS_AVAILABLE
    THEN NodeMapReal
    ELSE [t \in DOMAIN NodeMapReal |->
            IF t = "Azure.Generic" THEN "GenericCompute" ELSE "MockNode"]

\* lines 437 and 445
NodeClassOf(type) == Get(AZURE_NODE_MAP, type, AZURE_NODE_MAP["Azure.Generic"])

\* the drawing before the first statement of the diagram scope: created
\* lists the nodes instantiated, in order (a node is known by its place in
\* it); scope 0 is the top level, scope k the k-th cluster scope opened
EmptyDrawing ==
    [scopes |-> <<>>, created |-> <<>>, nodes |-> <<>>,
     cluster_nodes |-> <<>>, edges |-> <<>>]

\* lines 437-440 and 445-447 without line 439: a node instantiated in a
\* cluster scope is recorded in cluster_nodes only
CreateNodeClusterOnly(st, resource, scope, inCluster) ==
    LET node == Len(st.created) + 1
    IN  [st EXCEPT
           !.created = Append(@, [label |-> resource.name,
                                   node_class |-> NodeClassOf(resource.type),
                                   scope |-> scope]),
           !.nodes = IF inCluster THEN @ ELSE Put(@, resource.name, node),
           !.cluster_nodes = IF inCluster THEN Put(@, resource.name, node)
                             ELSE @]

\* lines 437-440 and 445-447: instantiate the node of resource in scope
CreateNode(st, resource, scope, inCluster) ==
    LET node == Len(st.created) + 1
    IN  [st EXCEPT
           !.created = Append(@, [label |-> resource.name,
                                   node_class |-> NodeClassOf(resource.type),
                                   scope |-> scope]),
           !.nodes = Put(@, resource.name, node),
           !.cluster_nodes = IF inCluster THEN Put(@, resource.name, node)
                             ELSE @]

\* lines 435-440: the resources of one cluster
RECURSIVE ClusterResourcesLoop(_, _, _, _)
ClusterResourcesLoop(resources, cluster_resources, scope, st) ==
    IF resources = <<>> THEN st
    ELSE ClusterResourcesLoop(
           Tail(resources), cluster_resources, scope,
           IF InList(Head(resources).name, cluster_resources)
           THEN CreateNode(st, Head(resources), scope, TRUE)
           ELSE st)

\* lines 430-440 leaving out a cluster that lists a name no resource has
RECURSIVE ClustersLoopSkipUnknown(_, _, _)
ClustersLoopSkipUnknown(clusters, resources, st) ==
    IF clusters = <<>> THEN st
    ELSE LET cluster == Head(clusters)
             cluster_name == Get(cluster, "name", "Cluster")
             cluster_resources == Get(cluster, "resources", <<>>)
             opened == [st EXCEPT !.scopes = Append(@, cluster_name)]
             known == \A i \in 1..Len(cluster_resources) :
                        \E k \in 1..Len(resources) :
                          resources[k].name = cluster_resources[i]
         IN  ClustersLoopSkipUnknown(
               Tail(clusters), resources,
               IF known
               THEN ClusterResourcesLoop(resources, cluster_resources,
                                         Len(opened.scopes), opened)
               ELSE st)

\* lines 430-440 with a cluster that has no resources list taken to list
\* every resource of the graph
RECURSIVE ClustersLoopDefaultAll(_, _, _)
ClustersLoopDefaultAll(clusters, resources, st) ==
    IF clusters = <<>> THEN st
    ELSE LET cluster == Head(clusters)
             cluster_name == Get(cluster, "name", "Cluster")
             cluster_resources ==
               Get(cluster, "resources",
                   [i \in 1..Len(resources) |-> resources[i].name])
             opened == [st EXCEPT !.scopes = Append(@, cluster_name)]
         IN  ClustersLoopDefaultAll(
               Tail(clusters), resources,
               ClusterResourcesLoop(resources, cluster_resources,
                                    Len(opened.scopes), opened))

\* lines 430-440: the clusters, in declaration order
RECURSIVE ClustersLoop(_, _, _)
ClustersLoop(clusters, resources, st) ==
    IF clusters = <<>> THEN st
    ELSE LET cluster == Head(clusters)
             cluster_name == Get(cluster, "name", "Cluster")
             cluster_resources == Get(cluster, "resources", <<>>)
             opened == [st EXCEPT !.scopes = Append(@, cluster_name)]
         IN  ClustersLoop(
               Tail(clusters), resources,
               ClusterResourcesLoop(resources, cluster_resources,
                                    Len(opened.scopes), opened))

\* lines 443-447 without the test of cluster_nodes on line 444
RECURSIVE RemainingLoopNoTest(_, _)
RemainingLoopNoTest(resources, st) ==
    IF resources = <<>> THEN st
    ELSE RemainingLoopNoTest(Tail(resources),
                             CreateNode(st, Head(resources), 0, FALSE))

\* lines 443-447: the resources no cluster scope instantiated
RECURSIVE RemainingLoop(_, _)
RemainingLoop(resources, st) ==
    IF resources = <<>> THEN st
    ELSE RemainingLoop(
           Tail(resources),
           IF Head(resources).name \notin DOMAIN st.cluster_nodes
           THEN CreateNode(st, Head(resources), 0, FALSE)
           ELSE st)

\* lines 450-459 stopping at the first relationship that does not resolve
RECURSIVE RelationshipsLoopBreak(_, _)
RelationshipsLoopBreak(relationships, st) ==
    IF relationships = <<>> THEN st
    ELSE LET source_name == Get(Head(relationships), "source", None)
             target_name == Get(Head(relationships), "target", None)
         IN  IF source_name \in DOMAIN st.nodes /\ target_name \in DOMAIN st.nodes
             THEN RelationshipsLoopBreak(
                    Tail(relationships),
                    [st EXCEPT !.edges =
                       Append(@, [source |-> st.nodes[source_name],
                                  target |-> st.nodes[target_name]])])
             ELSE st

\* lines 450-459: the edges, one `source_node >> target_node` each
RECURSIVE RelationshipsLoop(_, _)
RelationshipsLoop(relationships, st) ==
    IF relationships = <<>> THEN st
    ELSE LET source_name == Get(Head(relationships), "source", None)
             target_name == Get(Head(relationships), "target", None)
         IN  RelationshipsLoop(
               Tail(relationships),
               IF source_name \in DOMAIN st.nodes /\ target_name \in DOMAIN st.nodes
               THEN [st EXCEPT !.edges =
                       Append(@, [source |-> st.nodes[source_name],
                                  target |-> st.nodes[target_name]])]
               ELSE st)

\* lines 425-459: the body of the diagram scope
Draw(resources, relationships, clusters) ==
    RelationshipsLoop(
      relationships,
      RemainingLoop(resources, ClustersLoop(clusters, resources, EmptyDrawing)))

(***************************************************************************)
(* Paths and files.  A path of the temporary directory is a stem and the   *)
(* dot-separated parts that follow it: /tmp/tmp1.png is                    *)
(* [stem |-> 1, ext |-> <<"png">>].  A format is the sequence of its       *)
(* dot-separated parts.                                                    *)
(***************************************************************************)
\* the name tempfile.NamedTemporaryFile(suffix="." + output_format) gives
TmpPath(stem, output_format) == [stem |-> stem, ext |-> output_format]

\* line 418: tmp_path.rsplit('.', 1)[0]
RSplitDot(path) ==
    IF path.ext = <<>> THEN path
    ELSE [path EXCEPT !.ext = SubSeq(@, 1, Len(@) - 1)]

\* lines 424 and 462: f"{tmp_path_no_ext}.{output_format}"
WithExt(path, output_format) == [path EXCEPT !.ext = @ \o output_format]

\* os.unlink
Remove(fs, path) == [q \in DOMAIN fs \ {path} |-> fs[q]]

\* the stems NamedTemporaryFile can still use
FreeStems(output_format) ==
    { n \in 1..MaxTmp : TmpPath(n, output_format) \notin DOMAIN files }

\* line 414: the temporary name created (the least free one stands for any)
NamedTemporaryFile(output_format) ==
    TmpPath(CHOOSE n \in FreeStems(output_format) :
              \A m \in FreeStems(output_format) : n <= m,
            output_format)

\* the bytes of an image the rendering engine wrote; b"" is <<>>
ImageBytes(output_format) == <<"image">> \o output_format

\* lines 464-473 and 478-482: read path and delete it.  unlink is what
\* os.unlink does: "ok"; "vanished", the file was removed by someone else
\* after the read and os.unlink raises FileNotFoundError; "denied", os.unlink
\* raises another OSError and the file stays.
ReadAndUnlink(fs, path, unlink) ==
    [diagram_bytes |-> fs[path],
     unlinked |-> unlink = "ok",
     missing |-> unlink = "vanished",
     files |-> IF unlink = "denied" THEN fs ELSE Remove(fs, path)]

\* generate_diagram_from_json, lines 400-486.  engine is what the rendering
\* engine does when the diagram scope closes: "ok" or "fail"; unlink is
\* what os.unlink does.  files is the temporary directory when the call
\* ends.
generate_diagram_from_json(json_data, output_format, layout_direction, engine, unlink) ==
    IF "json_array" \in DOMAIN json_data
    THEN [raised |-> TRUE, files |-> files]
    ELSE
      LET diagram_label == Get(json_data, "diagram_label", "Azure Architecture")
          resources     == Get(json_data, "resources", <<>>)
          relationships == Get(json_data, "relationships", <<>>)
          clusters      == Get(json_data, "clusters", <<>>)
          tmp_path        == NamedTemporaryFile(output_format)
          created         == Put(files, tmp_path, <<>>)
          tmp_path_no_ext == RSplitDot(tmp_path)
          direction       == IF layout_direction = "TB" THEN "TB" ELSE "LR"
          diagram == [label |-> diagram_label, filename |-> tmp_path_no_ext,
                      direction |-> direction, outformat |-> output_format]
          drawing == Draw(resources, relationships, clusters)
          flushed == IF DIAGRAMS_AVAILABLE /\ engine = "ok"
                     THEN Put(created, WithExt(tmp_path_no_ext, output_format),
                              ImageBytes(output_format))
                     ELSE created
          actual_file_path == WithExt(tmp_path_no_ext, output_format)
      IN  IF DIAGRAMS_AVAILABLE /\ engine = "fail"
          THEN [raised |-> TRUE, diagram |-> diagram, drawing |-> drawing,
                files |-> flushed]
          ELSE IF actual_file_path \in DOMAIN flushed
          THEN LET got == ReadAndUnlink(flushed, actual_file_path, unlink)
               IN  IF got.unlinked
                   THEN [raised |-> FALSE, diagram |-> diagram,
                         drawing |-> drawing,
                         diagram_bytes |-> got.diagram_bytes,
                         files |-> got.files]
                   ELSE IF got.missing /\ tmp_path \in DOMAIN got.files
                   THEN \* lines 475-482: the handler of FileNotFoundError
                        [raised |-> FALSE, diagram |-> diagram,
                         drawing |-> drawing,
                         diagram_bytes |-> got.files[tmp_path],
                         files |-> Remove(got.files, tmp_path)]
                   ELSE [raised |-> TRUE, diagram |-> diagram,
                         drawing |-> drawing, files |-> got.files]
          ELSE IF tmp_path \in DOMAIN flushed
          THEN LET got == ReadAndUnlink(flushed, tmp_path, unlink)
               IN  IF got.unlinked
                   THEN [raised |-> FALSE, diagram |-> diagram,
                         drawing |-> drawing,
                         diagram_bytes |-> got.diagram_bytes,
                         files |-> got.files]
                   ELSE [raised |-> TRUE, diagram |-> diagram,
                         drawing |-> drawing, files |-> got.files]
          ELSE [raised |-> TRUE, diagram |-> diagram, drawing |-> drawing,
                files |-> flushed]

(***************************************************************************)
(* Inputs of the renderer                                                  *)
(***************************************************************************)
ResourcePool ==
    { [name |-> "A", type |-> "Azure.WebApp",
       attributes |-> [location |-> "East US", sku |-> "S1"]],
      [name |-> "B", type |-> "Azure.SQLDatabase",
       attributes |-> [location |-> "East US", sku |-> "S2"]],
      [name |-> "A", type |-> "Azure.Nonexistent",
       attributes |-> [location |-> "East US", sku |-> "S1"]] }

ClusterPool ==
    { [name |-> "Resource Group", resources |-> <<"A", "B">>],
      [name |-> "Network", resources |-> <<"A", "Ghost">>] }

RelationshipPool ==
    { [source |-> "A", target |-> "B", type |-> "connects_to"],
      [source |-> "B", target |-> "Ghost", type |-> "connects_to"] }

SeqsUpTo(S, n) == UNION { [1..k -> S] : k \in 0..n }

GeneratedGraphs ==
    { [diagram_label |-> "Test Architecture", resources |-> rs,
       relationships |-> rel, clusters |-> cl] :
        rs \in SeqsUpTo(ResourcePool, MaxResources),
        rel \in SeqsUpTo(RelationshipPool, MaxRels),
        cl \in SeqsUpTo(ClusterPool, MaxClusters) }

\* a JSON object without diagram_label and relationships, whose cluster
\* has no resources list
NoLabel ==
    [resources |-> << [name |-> "A", type |-> "Azure.WebApp",
                       attributes |-> [location |-> "East US", sku |-> "S1"]] >>,
     clusters |-> << [name |-> "Resource Group"] >>]

\* JSON objects that omit fields of the graph
PartialDocs == {NoLabel, LabelOnly}

\* a graph with a resource of the type whose class depends on the import
\* of lines 60-63
MlGraph ==
    [diagram_label |-> "ML",
     resources |-> << [name |-> "A", type |-> "Azure.MachineLearning",
                       attributes |-> [location |-> "East US", sku |-> "S1"]] >>,
     relationships |-> <<>>,
     clusters |-> <<>>]

\* the values generate_diagram_from_json is called with
RenderInputs == GeneratedGraphs \cup RemoteDocs \cup PartialDocs \cup {MlGraph}

RenderOptions ==
    { [output_format |-> <<"png">>, layout_direction |-> "TB"],
      [output_format |-> <<"svg">>, layout_direction |-> "LR"],
      [output_format |-> <<"png">>, layout_direction |-> "BT"] }

EngineOutcomes == {"ok", "fail"}

\* what os.unlink may do
UnlinkOutcomes == {"ok", "vanished", "denied"}

\* the graphs the failures of os.unlink are explored with
UnlinkFaultInputs == RemoteDocs

\* line 408: json_data.get raises on a value that is not an object, before
\* the temporary file is created; the call then never reaches the
\* rendering engine nor os.unlink
ReachesEngine(json_data) == "json_array" \notin DOMAIN json_data

\* a call that reaches neither the engine nor os.unlink
NotReached ==
    [engine |-> IF DIAGRAMS_AVAILABLE THEN "unused" ELSE "none",
     unlink |-> "unused"]

\* what the rendering engine and os.unlink may do in a call that reaches
\* them, os.unlink being one of unlinks: os.unlink is reached only when the
\* engine did not raise
EnvironmentsWith(unlinks) ==
    IF DIAGRAMS_AVAILABLE
    THEN { [engine |-> e, unlink |-> IF e = "ok" THEN u ELSE "unused"] :
             e \in EngineOutcomes, u \in unlinks }
    ELSE { [engine |-> "none", unlink |-> u] : u \in unlinks }

\* what the rendering engine and os.unlink may do in one call on json_data
Environments(json_data) ==
    IF ~ReachesEngine(json_data)
    THEN {NotReached}
    ELSE EnvironmentsWith(IF json_data \in UnlinkFaultInputs
                          THEN UnlinkOutcomes ELSE {"ok"})

(***************************************************************************)
(* The renderer as a state machine                                         *)
(***************************************************************************)
InitRender ==
    /\ AZURE_OPENAI_ENDPOINT = None
    /\ AZURE_OPENAI_API_KEY = ""
    /\ OPENAI_AVAILABLE = FALSE
    /\ DIAGRAMS_AVAILABLE \in BOOLEAN
    /\ MachineLearningServices \in MlImports(DIAGRAMS_AVAILABLE)
    /\ pc = "idle"
    /\ call = NoCall
    /\ first = NoCall
    /\ heap = <<>>
    /\ files = <<>>
    /\ render = NoCall
    /\ tool = NoCall
    /\ mcp = NoCall
    /\ inflight = <<>>

\* one call of generate_diagram_from_json
Rendered(json_data, opt, engine, unlink) ==
    LET result == generate_diagram_from_json(
                    json_data, opt.output_format, opt.layout_direction,
                    engine, unlink)
    IN  /\ render' = [made |-> TRUE, json_data |-> json_data, opt |-> opt,
                      engine |-> engine, unlink |-> unlink,
                      before |-> files, result |-> result]
        /\ files' = result.files
        /\ pc' = "rendered"
        /\ UNCHANGED <<globals, call, first, heap, tool, inflight, mcp>>

\* the graphs explored in the temporary directory fs: all of them in the
\* empty directory, the remote documents once earlier calls left files
RenderInputsAt(fs) ==
    IF fs = <<>> THEN RenderInputs ELSE RemoteDocs \cup PartialDocs

\* a caller calls generate_diagram_from_json; the rendering engine runs
\* only with the diagrams package imported
GenerateDiagramFromJson ==
    /\ pc = "idle"
    /\ \E json_data \in RenderInputsAt(files), opt \in RenderOptions :
         /\ FreeStems(opt.output_format) # {}
         /\ \E env \in Environments(json_data) :
              Rendered(json_data, opt, env.engine, env.unlink)

NextRender == GenerateDiagramFromJson \/ NextRequest

SpecRender == InitRender /\ [][NextRender]_vars

(***************************************************************************)
(* Properties of the renderer                                              *)
(***************************************************************************)
\* a generate_diagram_from_json call ended after entering the diagram scope
Drew == pc = "rendered" /\ "drawing" \in DOMAIN render.result

Drawing == render.result.drawing

\* neither the rendering engine nor os.unlink failed in the ended call
NoFault == render.engine # "fail" /\ render.unlink \in {"ok", "unused"}

\* both endpoints of relationship r are names of the registry of this call
Resolves(r) ==
    /\ "source" \in DOMAIN r /\ r.source \in DOMAIN Drawing.nodes
    /\ "target" \in DOMAIN r /\ r.target \in DOMAIN Drawing.nodes

\* `source_node >> target_node` is evaluated for a relationship if and only
\* if both its endpoints resolve in the name->node registry of the call; an
\* unresolved relationship is skipped without raising and leaves the nodes,
\* the clusters and the other evaluations as they are without it.
C9_EdgesIffResolved ==
    Drew =>
      LET g == render.json_data
          rels == Get(g, "relationships", <<>>)
          resolved == SelectSeq(rels, Resolves)
      IN  /\ Len(Drawing.edges) = Len(resolved)
          /\ \A k \in 1..Len(resolved) :
               Drawing.edges[k] = [source |-> Drawing.nodes[resolved[k].source],
                                   target |-> Drawing.nodes[resolved[k].target]]
          /\ NoFault => ~render.result.raised
          /\ Drawing = Draw(Get(g, "resources", <<>>), resolved,
                            Get(g, "clusters", <<>>))

\* a case of it: of the relationships B->Ghost, A->B only the second is drawn,
\* from the node of A to the node of B, and the call returned the image.
C9_Witness ==
    /\ Drew /\ DIAGRAMS_AVAILABLE /\ render.engine = "ok"
    /\ render.json_data \in GeneratedGraphs
    /\ Names(render.json_data.resources) = <<"A", "B">>
    /\ Len(render.json_data.relationships) = 2
    /\ render.json_data.relationships[1].target = "Ghost"
    /\ render.json_data.relationships[2].target = "B"
    /\ Len(Drawing.edges) = 1
    /\ Drawing.created[Drawing.edges[1].source].label = "A"
    /\ Drawing.created[Drawing.edges[1].target].label = "B"
    /\ ~render.result.raised
    /\ render.result.diagram_bytes # <<>>

\* the resource names of the rendered graph are pairwise distinct
DistinctResourceNames ==
    LET rs == Get(render.json_data, "resources", <<>>)
    IN  \A i, j \in 1..Len(rs) : i # j => rs[i].name # rs[j].name

\* the first cluster, in declaration order, that lists name
FirstClusterListing(name) ==
    LET cl == Get(render.json_data, "clusters", <<>>)
    IN  CHOOSE k \in 1..Len(cl) :
          /\ InList(name, Get(cl[k], "resources", <<>>))
          /\ \A m \in 1..(k - 1) : ~InList(name, Get(cl[m], "resources", <<>>))

\* the cluster names of the rendered graph are pairwise distinct
DistinctClusterNames ==
    LET cl == Get(render.json_data, "clusters", <<>>)
    IN  \A i, j \in 1..Len(cl) :
          i # j => Get(cl[i], "name", "Cluster") # Get(cl[j], "name", "Cluster")

\* C10: first cluster wins: a resource listed by more than one cluster is
\* instantiated only in the first cluster that lists it, and each resource
\* is instantiated at most once across all clusters (stated for graphs whose
\* resource names and cluster names are distinct, rendered by the engine).
C10_FirstClusterWins ==
    (Drew /\ DIAGRAMS_AVAILABLE /\ render.engine = "ok"
     /\ DistinctResourceNames /\ DistinctClusterNames) =>
      \A i, j \in 1..Len(Drawing.created) :
        (Drawing.created[i].scope > 0 /\ Drawing.created[j].scope > 0
         /\ Drawing.created[i].label = Drawing.created[j].label)
        => /\ i = j
           /\ Drawing.created[i].scope =
                FirstClusterListing(Drawing.created[i].label)

\* the resources of the rendered graph and its clusters
RenderedResources == Get(render.json_data, "resources", <<>>)

RenderedClusters == Get(render.json_data, "clusters", <<>>)

\* some cluster of the rendered graph lists name
Listed(name) ==
    \E k \in 1..Len(RenderedClusters) :
      InList(name, Get(RenderedClusters[k], "resources", <<>>))

\* the number of nodes instantiated at top level with label name
TopLevelCount(name) ==
    Cardinality({ i \in 1..Len(Drawing.created) :
                    /\ Drawing.created[i].scope = 0
                    /\ Drawing.created[i].label = name })

\* the number of resources of the rendered graph called name
ResourceCount(name) ==
    Cardinality({ i \in 1..Len(RenderedResources) :
                    RenderedResources[i].name = name })

\* C11: a resource no cluster lists is instantiated exactly once, at top
\* level; a resource some cluster lists is never instantiated at top level;
\* after node creation the registry holds exactly the resources' names.
C11_TopLevelOnce ==
    Drew =>
      /\ \A i \in 1..Len(RenderedResources) :
           LET name == RenderedResources[i].name
           IN  TopLevelCount(name) =
                 IF Listed(name) THEN 0 ELSE ResourceCount(name)
      /\ \A i \in 1..Len(Drawing.created) :
           \E k \in 1..Len(RenderedResources) :
             RenderedResources[k].name = Drawing.created[i].label
      /\ DOMAIN Drawing.nodes =
           { RenderedResources[i].name : i \in 1..Len(RenderedResources) }

\* C11 witness: A is listed by a cluster and B by none: A is instantiated
\* in the cluster scope only and B once at top level.
C11_Witness ==
    /\ Drew /\ DIAGRAMS_AVAILABLE /\ render.engine = "ok"
    /\ render.json_data \in GeneratedGraphs
    /\ Names(RenderedResources) = <<"A", "B">>
    /\ Len(RenderedClusters) = 1
    /\ RenderedClusters[1].resources = <<"A", "Ghost">>
    /\ Drawing.created =
         << [label |-> "A", node_class |-> "AppServices", scope |-> 1],
            [label |-> "B", node_class |-> "SQLDatabases", scope |-> 0] >>
    /\ DOMAIN Drawing.nodes = {"A", "B"}

\* a generate_diagram_from_json call ended
RenderEnded == pc = "rendered" /\ render.made

\* the rendering engine of the ended call wrote its output file: the
\* diagrams package is imported and its engine ran to the end
EngineWrote == DIAGRAMS_AVAILABLE /\ render.engine = "ok"

\* C12: render fails with an error whenever the rendering engine is
\* unavailable or produces no output file, and never returns a byte buffer
\* then, in particular not an empty one.
C12_NoOutputFails ==
    RenderEnded =>
      /\ ~EngineWrote => /\ render.result.raised
                         /\ "diagram_bytes" \notin DOMAIN render.result
      /\ ~render.result.raised => render.result.diagram_bytes # <<>>

\* C13: temporary files are cleaned up on all exit paths: after any
\* sequence of render calls, each returning bytes or raising, no temporary
\* file of those calls remains on disk, and the files on disk after a call
\* are the files on disk before it.
C13_NoLeftoverFiles ==
    /\ pc = "idle" => files = <<>>
    /\ RenderEnded => files = render.before

\* a node class whose instances are nodes of the rendering engine.  The
\* plain classes MockNode (lines 73-79) and GenericCompute (lines 108-114)
\* only store their label and answer `>>` with self: they add nothing to
\* the diagram scope they are instantiated in.
IsEngineNode(node_class) ==
    DIAGRAMS_AVAILABLE /\ node_class \notin {"GenericCompute", "MockNode"}

\* the instantiated nodes the engine draws
DrawnNodes ==
    { i \in 1..Len(Drawing.created) :
        IsEngineNode(Drawing.created[i].node_class) }

\* e joins two nodes of the rendering engine
IsDrawnEdge(e) == e.source \in DrawnNodes /\ e.target \in DrawnNodes

\* the `>>` evaluations the engine draws an edge for
DrawnEdges == SelectSeq(Drawing.edges, IsDrawnEdge)

\* the resource types the fallback extractor produces, and the generic one
ResourceTypes ==
    { WebAppResource.type, SqlResource.type, StorageResource.type,
      FunctionResource.type, "Azure.Generic" }

\* C14: a resource whose type is not a key of the node-type table is
\* rendered as the Generic node and render does not raise; the table has an
\* entry for every resource type, Azure.Generic included.
C14_UnknownTypeRendersGeneric ==
    /\ ResourceTypes \subseteq DOMAIN AZURE_NODE_MAP
    /\ (Drew /\ EngineWrote /\ NoFault) =>
         /\ ~render.result.raised
         /\ \A k \in 1..Len(RenderedResources) :
              RenderedResources[k].type \notin DOMAIN AZURE_NODE_MAP =>
                \E i \in DrawnNodes :
                  /\ Drawing.created[i].label = RenderedResources[k].name
                  /\ Drawing.created[i].node_class = "GenericCompute"

\* C9: render draws a directed edge source->target for a relationship if
\* and only if both its endpoints resolve in the name->node registry of the
\* call; an unresolved relationship is skipped without raising and changes
\* nothing else of what is rendered.
C9_EdgesDrawnIffResolved ==
    (Drew /\ EngineWrote /\ NoFault) =>
      LET rels == Get(render.json_data, "relationships", <<>>)
          resolved == SelectSeq(rels, Resolves)
      IN  /\ ~render.result.raised
          /\ Len(DrawnEdges) = Len(resolved)
          /\ \A k \in 1..Len(resolved) :
               DrawnEdges[k] =
                 [source |-> Drawing.nodes[resolved[k].source],
                  target |-> Drawing.nodes[resolved[k].target]]

\* the members cluster k of the rendered graph lists
MembersOf(k) == Get(RenderedClusters[k], "resources", <<>>)

\* C15: a cluster that lists a name no resource of the graph has is still
\* rendered, with nodes only for the listed names that exist; no node is
\* created for the missing name and render does not raise.
C15_ClusterWithMissingMember ==
    Drew =>
      /\ NoFault => ~render.result.raised
      /\ Len(Drawing.scopes) = Len(RenderedClusters)
      /\ \A k \in 1..Len(RenderedClusters) :
           /\ Drawing.scopes[k] = Get(RenderedClusters[k], "name", "Cluster")
           /\ \A i \in 1..Len(RenderedResources) :
                InList(RenderedResources[i].name, MembersOf(k)) =>
                  \E c \in 1..Len(Drawing.created) :
                    /\ Drawing.created[c].scope = k
                    /\ Drawing.created[c].label = RenderedResources[i].name
      /\ \A c \in 1..Len(Drawing.created) :
           /\ ResourceCount(Drawing.created[c].label) > 0
           /\ Drawing.created[c].scope > 0 =>
                InList(Drawing.created[c].label,
                       MembersOf(Drawing.created[c].scope))

\* C15 witness: the cluster Network lists A and the missing name Ghost: its
\* scope is opened and holds the node of A alone, and the image is returned.
C15_Witness ==
    /\ Drew /\ EngineWrote
    /\ render.json_data \in GeneratedGraphs
    /\ Names(RenderedResources) = <<"A", "B">>
    /\ Len(RenderedClusters) = 1
    /\ MembersOf(1) = <<"A", "Ghost">>
    /\ Drawing.scopes = <<"Network">>
    /\ { c \in 1..Len(Drawing.created) : Drawing.created[c].scope = 1 } = {1}
    /\ Drawing.created[1].label = "A"
    /\ "Ghost" \notin DOMAIN Drawing.nodes
    /\ ~render.result.raised
    /\ render.result.diagram_bytes # <<>>

\* C17: within one process_text_with_nlp call with remote configuration the
\* SDK client, if available, is attempted first, the requests method only
\* after the SDK attempt raised or when the SDK is unavailable, and the
\* fallback only after the requests attempt raised; the first success ends
\* the call and no strategy is attempted twice.  Without endpoint or key
\* the fallback is used directly and no remote call is issued.
C17_StrategyOrder ==
    Returned =>
      LET attempts == call.result.attempts
          sdkFailed == SdkFailureClass(call.sdk)
          httpFailed == HttpFailureClass(call.http)
      IN  IF ConfigMissing
          THEN attempts = <<"mock">>
               /\ call.sdk = Unused /\ call.http = Unused
          ELSE IF OPENAI_AVAILABLE
          THEN attempts =
                 IF ~sdkFailed THEN <<"client">>
                 ELSE IF ~httpFailed THEN <<"client", "requests">>
                 ELSE <<"client", "requests", "mock">>
          ELSE attempts =
                 IF ~httpFailed THEN <<"requests">>
                 ELSE <<"requests", "mock">>

\* C17 witness: the SDK attempt raised, the requests attempt returned a
\* parseable graph and ended the call: the fallback did not run.
C17_Witness ==
    /\ Returned /\ ~ConfigMissing /\ OPENAI_AVAILABLE
    /\ call.sdk.kind = "raise"
    /\ call.http.kind = "response" /\ call.http.status = 200
    /\ call.http.body.kind = "content"
    /\ call.http.body.content = <<Doc(GraphOne)>>
    /\ call.result.attempts = <<"client", "requests">>
    /\ Graph = GraphOne

\* os.unlink failed in the ended call, after the artifact was read
UnlinkFailed == RenderEnded /\ render.unlink \in {"vanished", "denied"}

\* C18: deleting the artifact after a successful read is best-effort: when
\* the deletion fails, whatever the error and also when the file has
\* vanished, render still returns the bytes it read and does not raise.
C18_UnlinkBestEffort ==
    (UnlinkFailed /\ EngineWrote) =>
      /\ ~render.result.raised
      /\ "diagram_bytes" \in DOMAIN render.result
      /\ render.result.diagram_bytes = ImageBytes(render.opt.output_format)

(***************************************************************************)
(* The tool generate_azure_diagram_from_text                               *)
(***************************************************************************)
\* fastmcp.Image(data=diagram_bytes, format=output_format), lines 524-527
Image(data, format) == [data |-> data, format |-> format]

\* lines 519-527: the tool's outcome once both steps have ended
ToolRendered(extracted, rendered, output_format) ==
    LET steps == <<"process_text_with_nlp", "generate_diagram_from_json">>
    IN  IF rendered.raised
        THEN [raised |-> TRUE, steps |-> steps, extracted |-> extracted,
              rendered |-> rendered, files |-> rendered.files]
        ELSE [raised |-> FALSE, steps |-> steps, extracted |-> extracted,
              rendered |-> rendered, files |-> rendered.files,
              image |-> Image(rendered.diagram_bytes, output_format)]

\* lines 516-527: the tool's steps after process_text_with_nlp has ended
ToolExtracted(extracted, output_format, layout_direction, engine, unlink) ==
    IF extracted.raised
    THEN [raised |-> TRUE, steps |-> <<"process_text_with_nlp">>,
          extracted |-> extracted, files |-> files]
    ELSE ToolRendered(extracted,
                      generate_diagram_from_json(
                        extracted.value, output_format, layout_direction,
                        engine, unlink),
                      output_format)

\* generate_azure_diagram_from_text, lines 494-530: steps lists the calls
\* it made, in order; every exception is raised again as
\* Exception("Failed to generate diagram: ...") (lines 528-530)
generate_azure_diagram_from_text(architecture_description, output_format, layout_direction, sdk, http, engine, unlink) ==
    ToolExtracted(process_text_with_nlp(architecture_description, sdk, http),
                  output_format, layout_direction, engine, unlink)

\* what the rendering engine and os.unlink may do in one call of the tool
\* whose extraction step returned json_data
ToolEnvironments(json_data) ==
    IF ~ReachesEngine(json_data)
    THEN {NotReached}
    ELSE EnvironmentsWith(UnlinkOutcomes)

\* the descriptions the tool is called with
ToolDescriptions == {Fragments[6], HelloWorld}

\* without remote configuration the description alone decides the graph,
\* and the tool is called with every description
ToolDescriptionsAt(missing) ==
    IF missing THEN Descriptions ELSE ToolDescriptions

\* the process after import; the import fallback of lines 62-63 is
\* explored with the renderer (InitRender)
InitGenerate ==
    /\ AZURE_OPENAI_ENDPOINT \in {None, "https://example.openai.azure.com/"}
    /\ AZURE_OPENAI_API_KEY = "key"
    /\ OPENAI_AVAILABLE \in BOOLEAN
    /\ DIAGRAMS_AVAILABLE \in BOOLEAN
    /\ MachineLearningServices =
         IF DIAGRAMS_AVAILABLE THEN "MachineLearningServiceWorkspaces"
         ELSE "MockNode"
    /\ pc = "idle"
    /\ call = NoCall
    /\ first = NoCall
    /\ heap = <<>>
    /\ files = <<>>
    /\ render = NoCall
    /\ tool = NoCall
    /\ mcp = NoCall
    /\ inflight = <<>>

\* one call of the tool that consulted sdk and http, and whose extraction
\* step returned extracted
GeneratedFrom(d, opt, sdk, http, extracted) ==
    /\ FreeStems(opt.output_format) # {}
    /\ \E env \in ToolEnvironments(extracted.value) :
         LET result == generate_azure_diagram_from_text(
                         d, opt.output_format, opt.layout_direction,
                         sdk, http, env.engine, env.unlink)
         IN  /\ tool' = [made |-> TRUE, description |-> d, opt |-> opt,
                         sdk |-> sdk, http |-> http, engine |-> env.engine,
                         unlink |-> env.unlink, before |-> files,
                         result |-> result]
             /\ files' = result.files
             /\ pc' = "generated"
             /\ UNCHANGED <<globals, call, first, heap, render, inflight, mcp>>

\* one call of the tool that consulted sdk and http
Generated(d, opt, sdk, http) ==
    GeneratedFrom(d, opt, sdk, http, process_text_with_nlp(d, sdk, http))

\* a client calls the tool; the remote strategies are consulted in the
\* order of lines 189-203
GenerateAzureDiagramFromText ==
    /\ pc = "idle"
    /\ \E d \in ToolDescriptionsAt(ConfigMissing), opt \in RenderOptions :
         IF ConfigMissing
         THEN Generated(d, opt, Unused, Unused)
         ELSE IF OPENAI_AVAILABLE
         THEN \E sdk \in SdkBehaviours :
                IF ~ _process_with_openai_client(sdk).raised
                THEN Generated(d, opt, sdk, Unused)
                ELSE \E http \in HttpBehaviours : Generated(d, opt, sdk, http)
         ELSE \E http \in HttpBehaviours : Generated(d, opt, Unused, http)

NextGenerate == GenerateAzureDiagramFromText \/ NextRequest

SpecGenerate == InitGenerate /\ [][NextGenerate]_vars

\* a generate_azure_diagram_from_text call ended
ToolEnded == pc = "generated" /\ tool.made

\* the rendering engine or os.unlink failed in the ended tool call
ToolFault == tool.engine = "fail" \/ tool.unlink \in {"vanished", "denied"}

\* C16: generate composes extract then render, in that order and each
\* exactly once per request; a render failure propagates to the caller as
\* an error, and no outcome of the extraction step (remote failure,
\* unparseable or malformed remote content) ever makes generate fail.
C16_GenerateComposes ==
    ToolEnded =>
      /\ tool.result.steps =
           <<"process_text_with_nlp", "generate_diagram_from_json">>
      /\ tool.result.rendered.raised => tool.result.raised
      /\ tool.result.raised => ToolFault

\* what the diagram scope of the tool's render step did
ToolDrawing == tool.result.rendered.drawing

\* C22: end to end on fallback graphs.  For every description with no
\* remote configuration, rendering the graph the extraction returns
\* instantiates exactly one node per resource, each inside the single
\* 'Resource Group' cluster and none at top level, and makes exactly one
\* edge per relationship, between the nodes of its source and its target
\* (n-1 edges for n resources): no relationship of a fallback graph is
\* dropped as unresolved.  With the diagrams package the nodes are nodes of
\* the rendering engine, so the edges are drawn.  With zero resources no
\* cluster scope, node or edge is created.
C22_FallbackEndToEnd ==
    (ToolEnded /\ ConfigMissing) =>
      LET rs == tool.result.extracted.value.resources
          rels == tool.result.extracted.value.relationships
          n == Len(rs)
          dr == ToolDrawing
      IN  /\ tool.result.steps =
               <<"process_text_with_nlp", "generate_diagram_from_json">>
          /\ tool.result.rendered.diagram.label = "Mock Architecture Diagram"
          /\ Len(dr.created) = n
          /\ \A i \in 1..n :
               /\ Cardinality({ j \in 1..Len(dr.created) :
                                  dr.created[j].label = rs[i].name }) = 1
               /\ rs[i].name \in DOMAIN dr.nodes
               /\ dr.created[dr.nodes[rs[i].name]].label = rs[i].name
          /\ \A i \in 1..Len(dr.created) :
               /\ dr.created[i].scope = 1
               /\ DIAGRAMS_AVAILABLE => IsEngineNode(dr.created[i].node_class)
          /\ dr.scopes = IF n = 0 THEN <<>> ELSE <<"Resource Group">>
          /\ Len(rels) = IF n = 0 THEN 0 ELSE n - 1
          /\ Len(dr.edges) = Len(rels)
          /\ \A k \in 1..Len(rels) :
               /\ dr.created[dr.edges[k].source].label = rels[k].source
               /\ dr.created[dr.edges[k].target].label = rels[k].target

\* C22 witness: with no remote configuration and a working engine, a
\* description naming the four kinds of resource was rendered as four
\* nodes in the 'Resource Group' cluster and three edges, and the image
\* came back.
C22_Witness ==
    /\ ToolEnded /\ ConfigMissing /\ DIAGRAMS_AVAILABLE
    /\ tool.engine = "ok" /\ ~tool.result.raised
    /\ Len(tool.result.extracted.value.resources) = 4
    /\ Len(ToolDrawing.created) = 4
    /\ Len(ToolDrawing.edges) = 3
    /\ ToolDrawing.scopes = <<"Resource Group">>
    /\ tool.result.image.data = ImageBytes(tool.opt.output_format)

\* C20: fields absent from a parsed response default rather than fail: a
\* graph without diagram_label is rendered with the label 'Azure
\* Architecture', one without resources, relationships or clusters as with
\* the empty sequence for that field, and a cluster without a resources
\* list as a cluster without members.
C20_AbsentFieldsDefault ==
    Drew =>
      LET g == render.json_data
      IN  /\ NoFault => ~render.result.raised
          /\ render.result.diagram.label =
               IF "diagram_label" \in DOMAIN g THEN g.diagram_label
               ELSE "Azure Architecture"
          /\ "resources" \notin DOMAIN g => Drawing.created = <<>>
          /\ "relationships" \notin DOMAIN g => Drawing.edges = <<>>
          /\ "clusters" \notin DOMAIN g => Drawing.scopes = <<>>
          /\ \A k \in 1..Len(RenderedClusters) :
               "resources" \notin DOMAIN RenderedClusters[k] =>
                 \A c \in 1..Len(Drawing.created) :
                   Drawing.created[c].scope # k

\* C20 witness: a graph without diagram_label and relationships whose
\* cluster has no resources list is rendered under the default label, with
\* an empty cluster scope, its resource at top level and no edge.
C20_Witness ==
    /\ Drew /\ EngineWrote /\ NoFault
    /\ render.json_data = NoLabel
    /\ render.result.diagram.label = "Azure Architecture"
    /\ Drawing.scopes = <<"Resource Group">>
    /\ Drawing.created =
         << [label |-> "A", node_class |-> "AppServices", scope |-> 0] >>
    /\ Drawing.edges = <<>>
    /\ ~render.result.raised
    /\ render.result.diagram_bytes # <<>>

(***************************************************************************)
(* Render calls of server processes that share the temporary directory.    *)
(* Each call goes through the file operations of lines 414-469 one at a    *)
(* time, and the operations of different calls interleave.                 *)
(***************************************************************************)
\* a bound on the number of render calls that interleave
MaxCalls == 2
\* a bound on the random names NamedTemporaryFile draws from
MaxStems == 2

\* the tag a call's engine invocation leaves in the image it writes
CallTags == <<"call1", "call2", "call3", "call4">>

\* the formats and the graphs the interleaved calls are made with
ConcurrentFormats == {<<"png">>, <<"svg">>}

ConcurrentGraphs == {GraphOne, LabelOnly}

\* the image the engine invocation of call p writes
ImageOf(p, output_format) == ImageBytes(output_format) \o <<CallTags[p]>>

\* call p has created its temporary file and has neither returned nor raised
InFlight(p) == inflight[p].pc \in {"drawing", "reading", "unlinking"}

InitConcurrent ==
    /\ AZURE_OPENAI_ENDPOINT = None
    /\ AZURE_OPENAI_API_KEY = ""
    /\ OPENAI_AVAILABLE = FALSE
    /\ DIAGRAMS_AVAILABLE = TRUE
    /\ MachineLearningServices = "MachineLearningServiceWorkspaces"
    /\ pc = "idle"
    /\ call = NoCall
    /\ first = NoCall
    /\ heap = <<>>
    /\ files = <<>>
    /\ render = NoCall
    /\ tool = NoCall
    /\ mcp = NoCall
    /\ inflight = <<>>

\* lines 408-418: a new call reads its graph, creates its temporary file
\* under a name that no file has, and strips the extension
CreateTemporaryFile ==
    /\ Len(inflight) < MaxCalls
    /\ \E json_data \in ConcurrentGraphs, output_format \in ConcurrentFormats,
          n \in 1..MaxStems :
         LET tmp_path == TmpPath(n, output_format)
         IN  /\ tmp_path \notin DOMAIN files
             /\ files' = Put(files, tmp_path, <<>>)
             /\ inflight' = Append(inflight,
                   [pc |-> "drawing", json_data |-> json_data,
                    output_format |-> output_format, tmp_path |-> tmp_path,
                    tmp_path_no_ext |-> RSplitDot(tmp_path),
                    nodes |-> <<>>, diagram_bytes |-> <<>>])
    /\ UNCHANGED <<globals, pc, call, first, heap, render, tool, mcp>>

\* lines 424-459: call p runs the diagram scope; when the scope closes the
\* engine writes the image next to the name it was given, or raises
CloseDiagram(p) ==
    /\ inflight[p].pc = "drawing"
    /\ LET c == inflight[p]
           drawing == Draw(Get(c.json_data, "resources", <<>>),
                           Get(c.json_data, "relationships", <<>>),
                           Get(c.json_data, "clusters", <<>>))
       IN  \E engine \in EngineOutcomes :
             IF engine = "ok"
             THEN /\ files' = Put(files,
                                  WithExt(c.tmp_path_no_ext, c.output_format),
                                  ImageOf(p, c.output_format))
                  /\ inflight' = [inflight EXCEPT ![p].pc = "reading",
                                                  ![p].nodes = drawing.nodes]
             ELSE /\ files' = files
                  /\ inflight' = [inflight EXCEPT ![p].pc = "raised",
                                                  ![p].nodes = drawing.nodes]
    /\ UNCHANGED <<globals, pc, call, first, heap, render, tool, mcp>>

\* lines 462-466: call p reads the file at the expected path
ReadArtifact(p) ==
    /\ inflight[p].pc = "reading"
    /\ LET c == inflight[p]
           actual_file_path == WithExt(c.tmp_path_no_ext, c.output_format)
       IN  IF actual_file_path \in DOMAIN files
           THEN inflight' = [inflight EXCEPT
                               ![p].pc = "unlinking",
                               ![p].diagram_bytes = files[actual_file_path]]
           ELSE inflight' = [inflight EXCEPT ![p].pc = "raised"]
    /\ UNCHANGED <<globals, pc, call, first, heap, render, tool, files, mcp>>

\* lines 469-472: call p deletes the file it read and returns the bytes
UnlinkArtifact(p) ==
    /\ inflight[p].pc = "unlinking"
    /\ LET c == inflight[p]
           actual_file_path == WithExt(c.tmp_path_no_ext, c.output_format)
       IN  IF actual_file_path \in DOMAIN files
           THEN /\ files' = Remove(files, actual_file_path)
                /\ inflight' = [inflight EXCEPT ![p].pc = "returned"]
           ELSE /\ files' = files
                /\ inflight' = [inflight EXCEPT ![p].pc = "raised"]
    /\ UNCHANGED <<globals, pc, call, first, heap, render, tool, mcp>>

NextConcurrent ==
    \/ CreateTemporaryFile
    \/ \E p \in 1..Len(inflight) :
         CloseDiagram(p) \/ ReadArtifact(p) \/ UnlinkArtifact(p)

SpecConcurrent == InitConcurrent /\ [][NextConcurrent]_vars

\* C19: concurrent renders do not collide: in every interleaving the calls
\* in flight hold pairwise distinct temporary paths, both the name with
\* its extension and the extension-less name handed to the engine; a call
\* that returns returns the bytes its own engine invocation wrote; the
\* registry of a call holds the names of its own graph only.
C19_NoCollision ==
    /\ \A p, q \in 1..Len(inflight) :
         (p # q /\ InFlight(p) /\ InFlight(q)) =>
           /\ inflight[p].tmp_path # inflight[q].tmp_path
           /\ inflight[p].tmp_path_no_ext # inflight[q].tmp_path_no_ext
    /\ \A p \in 1..Len(inflight) :
         /\ inflight[p].pc = "returned" =>
              inflight[p].diagram_bytes = ImageOf(p, inflight[p].output_format)
         /\ inflight[p].pc \in {"reading", "unlinking", "returned"} =>
              LET rs == Get(inflight[p].json_data, "resources", <<>>)
              IN  DOMAIN inflight[p].nodes = { rs[i].name : i \in 1..Len(rs) }

(***************************************************************************)
(* The /mcp endpoint of the HTTP wrapper: mcp_endpoint,                    *)
(* src/docker_mcp_server.py lines 134-216.  A request is a valid           *)
(* MCPRequest (lines 68-70): a method and a params dict.                   *)
(***************************************************************************)
\* raise HTTPException(status_code=...): HTTPException is a subclass of
\* Exception
HTTPException(status_code) ==
    [raised |-> TRUE, exc |-> "HTTPException", status_code |-> status_code,
     files |-> files]

\* lines 141-169: the answer to tools/list
ToolsList == [tools |-> << [name |-> "generate_azure_diagram"] >>]

\* base64.b64encode(diagram_bytes).decode('utf-8'), lines 190-191
b64encode(diagram_bytes) == <<"base64">> \o diagram_bytes

\* lines 193-198; the length of the bytes is the length of the sequence
\* that stands for them
McpResult(json_data, diagram_bytes, output_format) ==
    [diagram_base64 |-> b64encode(diagram_bytes), format |-> output_format,
     size_bytes |-> Len(diagram_bytes), json_data |-> json_data]

\* lines 187-207: the body once both steps have ended
McpRendered(extracted, rendered, output_format) ==
    IF rendered.raised
    THEN [raised |-> TRUE, exc |-> "Exception",
          step |-> "generate_diagram_from_json", files |-> rendered.files]
    ELSE [raised |-> FALSE, files |-> rendered.files,
          value |-> [content |->
                       << [type |-> "text",
                           text |-> McpResult(extracted.value,
                                              rendered.diagram_bytes,
                                              output_format)] >>]]

\* lines 184-207: the body after process_text_with_nlp has ended;
\* generate_diagram_from_json is called without layout_direction, which
\* defaults to "TB" (line 403 of src/azure_diagram_server.py)
McpExtracted(extracted, output_format, engine, unlink) ==
    IF extracted.raised
    THEN [raised |-> TRUE, exc |-> "Exception",
          step |-> "process_text_with_nlp", files |-> files]
    ELSE McpRendered(extracted,
                     generate_diagram_from_json(extracted.value, output_format,
                                                "TB", engine, unlink),
                     output_format)

\* line 180: the description of a tools/call
McpDescription(arguments) ==
    Get(arguments, "architecture_description",
        Get(arguments, "description", <<>>))

\* line 181: the output format of a tools/call
McpOutputFormat(arguments) == Get(arguments, "output_format", <<"png">>)

\* lines 172-207: tools/call of generate_azure_diagram
McpToolsCall(arguments, sdk, http, engine, unlink) ==
    McpExtracted(
      process_text_with_nlp(McpDescription(arguments), sdk, http),
      McpOutputFormat(arguments), engine, unlink)

\* lines 138-212: the body of the try statement
McpBody(method, params, sdk, http, engine, unlink) ==
    IF method = "tools/list"
    THEN [raised |-> FALSE, value |-> ToolsList, files |-> files]
    ELSE IF method = "tools/call"
    THEN IF Get(params, "name", None) = "generate_azure_diagram"
         THEN McpToolsCall(Get(params, "arguments", <<>>), sdk, http,
                           engine, unlink)
         ELSE HTTPException(400)
    ELSE HTTPException(400)

\* lines 137 and 214-216: `except Exception` catches whatever the body
\* raised and raises HTTPException(status_code=500); the framework answers
\* a raised HTTPException with its status code and a returned value with
\* status 200
McpAnswer(body) ==
    IF body.raised
    THEN [status |-> 500, caught |-> body, files |-> body.files]
    ELSE [status |-> 200, value |-> body.value, files |-> body.files]

\* mcp_endpoint, lines 134-216
mcp_endpoint(method, params, sdk, http, engine, unlink) ==
    McpAnswer(McpBody(method, params, sdk, http, engine, unlink))

\* lines 108-127 of generate_diagram_endpoint: the body once both steps
\* have ended
GenerateDiagramRendered(extracted, rendered, output_format) ==
    IF rendered.raised
    THEN [raised |-> TRUE, exc |-> "Exception",
          step |-> "generate_diagram_from_json", files |-> rendered.files]
    ELSE [raised |-> FALSE, files |-> rendered.files,
          value |-> [success |-> TRUE,
                     result |-> McpResult(extracted.value,
                                          rendered.diagram_bytes,
                                          output_format),
                     message |-> "Diagram generated successfully"]]

\* lines 105-127: the body after process_text_with_nlp has ended
GenerateDiagramExtracted(extracted, output_format, engine, unlink) ==
    IF extracted.raised
    THEN [raised |-> TRUE, exc |-> "Exception",
          step |-> "process_text_with_nlp", files |-> files]
    ELSE GenerateDiagramRendered(
           extracted,
           generate_diagram_from_json(extracted.value, output_format, "TB",
                                      engine, unlink),
           output_format)

\* lines 98 and 129-131: every exception of the body is answered with
\* status 500
GenerateDiagramAnswer(body) ==
    IF body.raised
    THEN [status |-> 500, caught |-> body, files |-> body.files]
    ELSE [status |-> 200, value |-> body.value, files |-> body.files]

\* generate_diagram_endpoint, lines 95-131; request is a DiagramRequest
\* (lines 63-66), whose output_format defaults to "png"
generate_diagram_endpoint(request, sdk, http, engine, unlink) ==
    GenerateDiagramAnswer(
      GenerateDiagramExtracted(
        process_text_with_nlp(request.description, sdk, http),
        Get(request, "output_format", <<"png">>), engine, unlink))

\* line 227: "A simple web app with a database"
TestDescription ==
    <<"A"," ","s","i","m","p","l","e"," ","w","e","b"," ","a","p","p"," ",
      "w","i","t","h"," ","a"," ","d","a","t","a","b","a","s","e">>

\* lines 230-240 of test_endpoint: the body once both steps have ended
TestRendered(extracted, rendered) ==
    IF rendered.raised
    THEN [raised |-> TRUE, exc |-> "Exception",
          step |-> "generate_diagram_from_json", files |-> rendered.files]
    ELSE [raised |-> FALSE, files |-> rendered.files,
          value |-> [test |-> "passed",
                     message |-> "Diagram generation test successful",
                     result |-> [size_bytes |-> Len(rendered.diagram_bytes),
                                 json_data |-> extracted.value,
                                 description |-> TestDescription]]]

\* lines 228-240: the body after process_text_with_nlp has ended
TestExtracted(extracted, engine, unlink) ==
    IF extracted.raised
    THEN [raised |-> TRUE, exc |-> "Exception",
          step |-> "process_text_with_nlp", files |-> files]
    ELSE TestRendered(
           extracted,
           generate_diagram_from_json(extracted.value, <<"png">>, "TB",
                                      engine, unlink))

\* lines 222 and 241-246: an exception of the body is answered with status
\* 200 and the value {"test": "failed", ...}
TestAnswer(body) ==
    IF body.raised
    THEN [status |-> 200, caught |-> body, files |-> body.files,
          value |-> [test |-> "failed"]]
    ELSE [status |-> 200, value |-> body.value, files |-> body.files]

\* test_endpoint, lines 219-246
test_endpoint(sdk, http, engine, unlink) ==
    TestAnswer(
      TestExtracted(process_text_with_nlp(TestDescription, sdk, http),
                    engine, unlink))

\* the methods of the requests
McpMethods == {"tools/list", "tools/call", "resources/list", "initialize"}

\* the arguments of a tools/call request
McpArguments ==
    UNION { { [description |-> d],
              [architecture_description |-> d, description |-> HelloWorld],
              [description |-> d, output_format |-> <<"svg">>] } :
            d \in ToolDescriptions }

\* the params of a tools/call request
McpCallParams ==
    { [name |-> "generate_azure_diagram", arguments |-> a] : a \in McpArguments }
    \cup { [name |-> "generate_azure_diagram"],
           [name |-> "generate_diagram"],
           [arguments |-> [description |-> HelloWorld]] }

\* the bodies of the requests to /generate-diagram
DiagramRequests ==
    { [description |-> d] : d \in ToolDescriptions }
    \cup { [description |-> d, output_format |-> <<"svg">>] :
             d \in ToolDescriptions }

\* is the request a call of the tool the endpoint knows
IsKnownCall(method, params) ==
    method = "tools/call" /\ Get(params, "name", None) = "generate_azure_diagram"

\* what the remote strategies may do in one call of process_text_with_nlp,
\* consulted in the order of lines 189-203 of src/azure_diagram_server.py:
\* pairs of what the SDK did and what requests.post did
Consultations ==
    IF ConfigMissing
    THEN { <<Unused, Unused>> }
    ELSE IF OPENAI_AVAILABLE
    THEN { <<sdk, Unused>> :
             sdk \in { b \in SdkBehaviours :
                         ~ _process_with_openai_client(b).raised } }
         \cup { <<sdk, http>> :
                  sdk \in { b \in SdkBehaviours :
                              _process_with_openai_client(b).raised },
                  http \in HttpBehaviours }
    ELSE { <<Unused, http>> : http \in HttpBehaviours }

InitMcp == InitGenerate

\* the answer of a handler leaves the process
Served(request, response) ==
    /\ mcp' = request @@ [made |-> TRUE, before |-> files,
                          response |-> response]
    /\ files' = response.files
    /\ pc' = "answered"
    /\ UNCHANGED <<globals, call, first, heap, render, tool, inflight>>

\* one request of /mcp answered; sdk, http and env are what the remote
\* strategies, the rendering engine and os.unlink did while it was served
Answered(method, params, sdk, http, env) ==
    Served([endpoint |-> "/mcp", method |-> method, params |-> params,
            sdk |-> sdk, http |-> http, engine |-> env.engine,
            unlink |-> env.unlink],
           mcp_endpoint(method, params, sdk, http, env.engine, env.unlink))

\* a request that makes no call of the generator
AnsweredAtOnce(method, params) ==
    Answered(method, params, Unused, Unused, NotReached)

\* a tools/call of generate_azure_diagram whose extraction step returned
\* extracted
AnsweredFrom(params, sdk, http, extracted) ==
    \E env \in ToolEnvironments(extracted.value) :
      Answered("tools/call", params, sdk, http, env)

\* a tools/call of generate_azure_diagram
AnsweredCall(params) ==
    /\ FreeStems(McpOutputFormat(Get(params, "arguments", <<>>))) # {}
    /\ \E c \in Consultations :
         AnsweredFrom(params, c[1], c[2],
                      process_text_with_nlp(
                        McpDescription(Get(params, "arguments", <<>>)),
                        c[1], c[2]))

\* a client posts a request to /mcp
McpEndpoint ==
    /\ pc = "idle"
    /\ \E method \in McpMethods :
         IF method = "tools/call"
         THEN \E params \in McpCallParams :
                IF IsKnownCall(method, params)
                THEN AnsweredCall(params)
                ELSE AnsweredAtOnce(method, params)
         ELSE AnsweredAtOnce(method, <<>>)

\* a request of /generate-diagram whose extraction step returned extracted
DiagramAnsweredFrom(request, sdk, http, extracted) ==
    \E env \in ToolEnvironments(extracted.value) :
      Served([endpoint |-> "/generate-diagram", request |-> request,
              sdk |-> sdk, http |-> http, engine |-> env.engine,
              unlink |-> env.unlink],
             generate_diagram_endpoint(request, sdk, http,
                                       env.engine, env.unlink))

\* a client posts a request to /generate-diagram
GenerateDiagramEndpoint ==
    /\ pc = "idle"
    /\ \E request \in DiagramRequests :
         /\ FreeStems(Get(request, "output_format", <<"png">>)) # {}
         /\ \E c \in Consultations :
              DiagramAnsweredFrom(
                request, c[1], c[2],
                process_text_with_nlp(request.description, c[1], c[2]))

\* a request of /test whose extraction step returned extracted
TestAnsweredFrom(sdk, http, extracted) ==
    \E env \in ToolEnvironments(extracted.value) :
      Served([endpoint |-> "/test", sdk |-> sdk, http |-> http,
              engine |-> env.engine, unlink |-> env.unlink],
             test_endpoint(sdk, http, env.engine, env.unlink))

\* a client requests /test
TestEndpoint ==
    /\ pc = "idle"
    /\ FreeStems(<<"png">>) # {}
    /\ \E c \in Consultations :
         TestAnsweredFrom(c[1], c[2],
                          process_text_with_nlp(TestDescription, c[1], c[2]))

NextMcp ==
    \/ McpEndpoint
    \/ GenerateDiagramEndpoint
    \/ TestEndpoint
    \/ NextRequest

SpecMcp == InitMcp /\ [][NextMcp]_vars

\* C23: the /mcp endpoint answers a request whose method is neither
\* tools/list nor tools/call, and a tools/call request naming an unknown
\* tool, with HTTP status 400; status 500 is returned only when the
\* extraction or the rendering of a known tool call fails.
C23_McpStatus ==
    (pc = "answered" /\ mcp.made /\ mcp.endpoint = "/mcp") =>
      /\ (\/ mcp.method \notin {"tools/list", "tools/call"}
          \/ /\ mcp.method = "tools/call"
             /\ ~IsKnownCall(mcp.method, mcp.params))
         => mcp.response.status = 400
      /\ mcp.response.status = 500 =>
           /\ IsKnownCall(mcp.method, mcp.params)
           /\ mcp.response.caught.exc = "Exception"

====
